---------------------------- MODULE Spec2Model ----------------------------
(***************************************************************************)
(* Feed navigation and gesture interpretation of arxivtok.                 *)
(*                                                                         *)
(* The feed (src/src/routes/index.tsx, component Home) owns the item list, *)
(* the position, the pagination cursor, the busy flag, the navigation lock *)
(* and the gesture session.  The card (src/unnamed/part_000, component     *)
(* PaperCard) owns an internal scroll region whose handlers run before the *)
(* feed's window listeners and may stop an event's propagation.            *)
(*                                                                         *)
(* Every signal of the two components that the handlers read or write is a *)
(* variable.  Date.now() is only ever read as a difference to the recorded *)
(* swipe start time, so the model keeps that difference (swipeAge).        *)
(***************************************************************************)
EXTENDS Integers, Sequences, FiniteSets, TLC

VARIABLES
    \* ---- Home (src/src/routes/index.tsx) ----
    papers,             \* Item List: sequence of items
    currentIndex,       \* Position
    page,               \* Pagination Cursor
    isLoading,          \* busy flag
    currentSource,      \* Filter State: source
    activeQueries,      \* Filter State: query terms
    isScrolling,        \* Navigation Lock
    swipeDirection,     \* direction flag: "up", "down" or "null"
    swipeStartY,        \* Gesture Session: start coordinate
    swipeAge,           \* Gesture Session: Date.now() - swipeStartTime()
    isCardInteraction,  \* Gesture Session: inert flag
    cooldownTimers,     \* number of pending setTimeout(scrollCooldown) callbacks
    inflight,           \* fetchPapers calls awaiting their result
    mounted,            \* onMount has run
    \* ---- PaperCard under the pointer (src/unnamed/part_000) ----
    scrollTop,          \* contentRef.scrollTop
    scrollHeight,       \* contentRef.scrollHeight
    touchStartY,        \* card's recorded touch start coordinate
    scrollStartPosition,\* card's recorded scrollTop at touch start
    isInteracting,      \* card signal, never set to true by the code
    favorite,           \* isFavorite(props.paper.id)
    tapAge,             \* Date.now() - lastTap(), as of the last click
    showHeartAnimation, \* card's transient animation flag
    heartTimers,        \* pending timers that clear the animation flag
    \* ---- environment / observation ----
    touch,              \* target of the touch sequence in progress, or "none"
    filterChanges,      \* number of Filter State changes made so far
    tapLog,             \* the clicks delivered to the card and the toggles they made
    cursorFilter,       \* Filter State of the fetch whose success last set the Cursor
    ev                  \* the last event delivered and what the handlers did with it

vars == << papers, currentIndex, page, isLoading, currentSource, activeQueries,
           isScrolling, swipeDirection, swipeStartY, swipeAge, isCardInteraction,
           cooldownTimers, inflight, mounted, scrollTop, scrollHeight,
           touchStartY, scrollStartPosition, isInteracting, touch, ev, filterChanges,
           favorite, tapAge, tapLog, showHeartAnimation, heartTimers,
           cursorFilter >>

feedNav == << currentIndex, isScrolling, swipeDirection, cooldownTimers,
              isLoading, inflight >>
feedData == << papers, page >>
feedFilter == << activeQueries, currentSource, filterChanges, cursorFilter >>
feedSwipe == << swipeStartY, swipeAge, isCardInteraction >>
cardVars == << scrollTop, scrollHeight, touchStartY, scrollStartPosition,
               isInteracting >>
tapVars == << favorite, tapAge, tapLog, showHeartAnimation, heartTimers >>

-----------------------------------------------------------------------------
(* Bounds of the model *)

\* longest Item List the backend and the favorites store are allowed to build
MaxPapers == 3
\* largest value of the Pagination Cursor
MaxPage == 2
\* largest number of Filter State changes in one behaviour
MaxFilterChanges == 1
\* largest number of clicks on the card in one behaviour
MaxTaps == 4

-----------------------------------------------------------------------------
(* Program constants *)

MIN_SWIPE_DISTANCE == 30
\* MIN_SWIPE_VELOCITY = 0.3 = MinVelocityNum / MinVelocityDen
MinVelocityNum == 3
MinVelocityDen == 10
\* deltaTime = milliseconds / MsPerSecond
MsPerSecond == 1000
\* jitter threshold of the feed's handleTouchMove
MoveJitter == 5
\* PaperCard.handleDoubleTap
DOUBLE_TAP_DELAY == 300

defaultQueries ==
    << "Artificial Intelligence", "Machine Learning", "Computation and Language",
       "Computer Vision", "Neural and Evolutionary Computing", "Machine Learning" >>

-----------------------------------------------------------------------------
(* Inputs the environment draws from *)

Sources == {"arxiv", "medrxiv"}
SearchTerms == {"Machine Learning"}
RemoveTerms == {"Machine Learning"}
WheelDeltas == {-10, 0, 10}
StartYs == {100}
TouchYs == {60, 70, 90, 100, 110, 140}
\* the coordinates and times of touches on the card
CardTouchYs == {60, 140}
\* values of Date.now() - swipeStartTime(); the last stands for every larger
\* one: from there on velocity > 0.3 implies |deltaY| > 30
Ages == {0, 20, 1000, 1000000}
StaleAge == CHOOSE a \in Ages : \A b \in Ages : b <= a
CardAges == {20, StaleAge}
ScrollHeights == {50, 70}
\* contentRef.clientHeight of the card: the shortest content just fills it
ClientHeight == CHOOSE h \in ScrollHeights : \A g \in ScrollHeights : h <= g
Targets == {"feed", "content", "link"}
WheelTargets == {"feed", "content"}
FavoriteIds == {1, 9}
\* handleDoubleTap is declared for (e: MouseEvent | TouchEvent)
EventClasses == {"MouseEvent", "TouchEvent"}
\* milliseconds between a click and the one before it
TapGaps == {100, 400}
ClickTargets == {"content", "link"}
\* how many items a fetchPapers call returns
ResultSizes == {0, 1, 2}
MaxResult == CHOOSE n \in ResultSizes : \A m \in ResultSizes : m <= n
\* a list long enough for an advance to stay more than two before its tail
LongList == MaxPapers + 1

-----------------------------------------------------------------------------
(* Helpers *)

Abs(x) == IF x < 0 THEN -x ELSE x

Min(a, b) == IF a < b THEN a ELSE b

Max(a, b) == IF a > b THEN a ELSE b

SeqToSet(s) == { s[i] : i \in 1..Len(s) }

\* Array.prototype.filter(q => q !== x)
RECURSIVE Without(_, _)
Without(s, x) ==
    IF s = << >> THEN << >>
    ELSE IF Head(s) = x THEN Without(Tail(s), x)
    ELSE << Head(s) >> \o Without(Tail(s), x)

\* [...new Set(s)]: first occurrences, in insertion order
RECURSIVE Dedup(_)
Dedup(s) ==
    IF s = << >> THEN << >>
    ELSE << Head(s) >> \o Dedup(Without(Tail(s), Head(s)))

\* Array.prototype.findIndex(p => p.id === id), 1-based; 0 when absent
FindIndex(s, id) ==
    IF \E i \in 1..Len(s) : s[i].id = id
    THEN CHOOSE i \in 1..Len(s) : s[i].id = id /\ \A j \in 1..(i-1) : s[j].id # id
    ELSE 0

FilterOf(queries, source) == << queries, source >>

\* the items a fetch of `req` returns when the backend has n of them
FetchResult(req, n) ==
    [ k \in 1..n |-> [ id |-> req.page * MaxResult + k,
                       fs |-> FilterOf(req.queries, req.source) ] ]

NoEv(op) ==
    [ op |-> op, target |-> "none", stopped |-> FALSE, prevented |-> FALSE,
      intent |-> "none", deltaY |-> 0, changed |-> FALSE, page |-> -1,
      id |-> 0 ]

-----------------------------------------------------------------------------
(* PaperCard: edges of the scroll region *)

IsAtTop == scrollTop = 0

IsAtBottom == scrollTop + ClientHeight >= scrollHeight - 1

\* the browser clamps an assignment to scrollTop
ClampScroll(v) == Max(0, Min(v, Max(0, scrollHeight - ClientHeight)))

-----------------------------------------------------------------------------
Init ==
    /\ papers = << >>
    /\ currentIndex = 0
    /\ page = 0
    /\ isLoading = FALSE
    /\ currentSource = "arxiv"
    /\ activeQueries = defaultQueries
    /\ isScrolling = FALSE
    /\ swipeDirection = "null"
    /\ swipeStartY = 0
    /\ swipeAge = StaleAge
    /\ isCardInteraction = FALSE
    /\ cooldownTimers = 0
    /\ inflight = << >>
    /\ mounted = FALSE
    /\ scrollTop = 0
    /\ scrollHeight = ClientHeight
    /\ touchStartY = 0
    /\ scrollStartPosition = 0
    /\ isInteracting = FALSE
    /\ touch = "none"
    /\ ev = NoEv("init")
    /\ filterChanges = 0
    /\ favorite = FALSE
    /\ tapAge = StaleAge
    /\ showHeartAnimation = FALSE
    /\ heartTimers = 0
    /\ cursorFilter = << >>
    /\ tapLog = [ hist |-> << >>, toggles |-> 0, pending |-> "none" ]

-----------------------------------------------------------------------------
(* Home.loadPapers: the part before the await.  A call made while a fetch *)
(* is outstanding returns at once.  The request keeps the arguments the    *)
(* call evaluated; atPapers, atIndex, atPage and favSince observe the      *)
(* state the fetch was started in and whether a favorite was selected      *)
(* since (they are read by no handler).                                    *)

LoadPapersNoBusyCheck(reset, queries, source, index) ==
    /\ isLoading' = TRUE
    /\ inflight' = Append(inflight,
          [ reset |-> reset, page |-> IF reset THEN 0 ELSE page,
            queries |-> queries, source |-> source,
            atPapers |-> papers, atIndex |-> index, atPage |-> page,
            favSince |-> FALSE ])

LoadPapers(reset, queries, source, index) ==
    IF isLoading
    THEN UNCHANGED << isLoading, inflight >>
    ELSE /\ isLoading' = TRUE
         /\ inflight' = Append(inflight,
               [ reset |-> reset, page |-> IF reset THEN 0 ELSE page,
                 queries |-> queries, source |-> source,
                 atPapers |-> papers, atIndex |-> index, atPage |-> page,
                 favSince |-> FALSE ])

-----------------------------------------------------------------------------
(* Home.scrollToNext / Home.scrollToPrevious *)

ScrollToNextLateTrigger ==
    LET move == ~isScrolling /\ currentIndex < Len(papers) - 1
        idx  == IF move THEN currentIndex + 1 ELSE currentIndex
    IN  /\ currentIndex' = idx
        /\ swipeDirection' = IF move THEN "up" ELSE swipeDirection
        /\ isScrolling' = (isScrolling \/ move)
        /\ cooldownTimers' = IF move THEN cooldownTimers + 1 ELSE cooldownTimers
        /\ IF idx >= Len(papers) - 1
           THEN LoadPapers(FALSE, activeQueries, currentSource, idx)
           ELSE UNCHANGED << isLoading, inflight >>

ScrollToNextOffByOne ==
    LET move == ~isScrolling /\ currentIndex < Len(papers)
        idx  == IF move THEN currentIndex + 1 ELSE currentIndex
    IN  /\ currentIndex' = idx
        /\ swipeDirection' = IF move THEN "up" ELSE swipeDirection
        /\ isScrolling' = (isScrolling \/ move)
        /\ cooldownTimers' = IF move THEN cooldownTimers + 1 ELSE cooldownTimers
        /\ IF idx >= Len(papers) - 2
           THEN LoadPapers(FALSE, activeQueries, currentSource, idx)
           ELSE UNCHANGED << isLoading, inflight >>

ScrollToNextByTwo ==
    LET move == ~isScrolling /\ currentIndex < Len(papers) - 1
        idx  == IF move THEN currentIndex + 2 ELSE currentIndex
    IN  /\ currentIndex' = idx
        /\ swipeDirection' = IF move THEN "up" ELSE swipeDirection
        /\ isScrolling' = (isScrolling \/ move)
        /\ cooldownTimers' = IF move THEN cooldownTimers + 1 ELSE cooldownTimers
        /\ IF idx >= Len(papers) - 2
           THEN LoadPapers(FALSE, activeQueries, currentSource, idx)
           ELSE UNCHANGED << isLoading, inflight >>

ScrollToNext ==
    LET move == ~isScrolling /\ currentIndex < Len(papers) - 1
        idx  == IF move THEN currentIndex + 1 ELSE currentIndex
    IN  /\ currentIndex' = idx
        /\ swipeDirection' = IF move THEN "up" ELSE swipeDirection
        /\ isScrolling' = (isScrolling \/ move)
        /\ cooldownTimers' = IF move THEN cooldownTimers + 1 ELSE cooldownTimers
        /\ IF idx >= Len(papers) - 2
           THEN LoadPapers(FALSE, activeQueries, currentSource, idx)
           ELSE UNCHANGED << isLoading, inflight >>

ScrollToPreviousAlwaysLocks ==
    LET move == ~isScrolling /\ currentIndex > 0
    IN  /\ currentIndex' = IF move THEN currentIndex - 1 ELSE currentIndex
        /\ swipeDirection' = IF ~isScrolling THEN "down" ELSE swipeDirection
        /\ isScrolling' = TRUE
        /\ cooldownTimers' = IF ~isScrolling THEN cooldownTimers + 1 ELSE cooldownTimers
        /\ UNCHANGED << isLoading, inflight >>

ScrollToPreviousNoDirection ==
    LET move == ~isScrolling /\ currentIndex > 0
    IN  /\ currentIndex' = IF move THEN currentIndex - 1 ELSE currentIndex
        /\ swipeDirection' = swipeDirection
        /\ isScrolling' = (isScrolling \/ move)
        /\ cooldownTimers' = IF move THEN cooldownTimers + 1 ELSE cooldownTimers
        /\ UNCHANGED << isLoading, inflight >>

ScrollToPrevious ==
    LET move == ~isScrolling /\ currentIndex > 0
    IN  /\ currentIndex' = IF move THEN currentIndex - 1 ELSE currentIndex
        /\ swipeDirection' = IF move THEN "down" ELSE swipeDirection
        /\ isScrolling' = (isScrolling \/ move)
        /\ cooldownTimers' = IF move THEN cooldownTimers + 1 ELSE cooldownTimers
        /\ UNCHANGED << isLoading, inflight >>

\* what a handler does with the intent it classified
ApplyIntent(intent) ==
    CASE intent = "advance" -> ScrollToNext
      [] intent = "retreat" -> ScrollToPrevious
      [] OTHER -> UNCHANGED feedNav

CooldownExpireKeepsDirection ==
    /\ cooldownTimers > 0
    /\ cooldownTimers' = cooldownTimers - 1
    /\ isScrolling' = FALSE
    /\ ev' = NoEv("cooldown")
    /\ UNCHANGED << tapVars, currentIndex, isLoading, inflight, feedData, feedFilter,
                    feedSwipe, mounted, cardVars, touch, swipeDirection >>

\* the callback of setTimeout(..., scrollCooldown)
CooldownExpire ==
    /\ cooldownTimers > 0
    /\ cooldownTimers' = cooldownTimers - 1
    /\ isScrolling' = FALSE
    /\ swipeDirection' = "null"
    /\ ev' = NoEv("cooldown")
    /\ UNCHANGED << tapVars, currentIndex, isLoading, inflight, feedData, feedFilter,
                    feedSwipe, mounted, cardVars, touch >>

-----------------------------------------------------------------------------
(* Home.onMount *)

Mount ==
    /\ ~mounted
    /\ mounted' = TRUE
    /\ LoadPapers(FALSE, activeQueries, currentSource, currentIndex)
    /\ ev' = NoEv("mount")
    /\ UNCHANGED << tapVars, currentIndex, isScrolling, swipeDirection, cooldownTimers,
                    feedData, feedFilter, feedSwipe, cardVars, touch >>

-----------------------------------------------------------------------------
(* Filter State changes: each sets the filter and calls loadPapers(true) *)

FilterEv(op, queries, source) ==
    [ NoEv(op) EXCEPT !.changed =
          (FilterOf(queries, source) # FilterOf(activeQueries, currentSource)) ]

SetFilter(op, queries, source) ==
    /\ mounted
    /\ filterChanges < MaxFilterChanges
    /\ filterChanges' = filterChanges + 1
    /\ activeQueries' = queries
    /\ currentSource' = source
    /\ LoadPapers(TRUE, queries, source, currentIndex)
    /\ ev' = FilterEv(op, queries, source)
    /\ UNCHANGED << tapVars, cursorFilter, currentIndex, isScrolling, swipeDirection, cooldownTimers,
                    feedData, feedSwipe, mounted, cardVars, touch >>

HandleSearch(query) ==
    SetFilter("handleSearch", Dedup(Append(activeQueries, query)), currentSource)

RemoveQuery(queryToRemove) ==
    /\ queryToRemove \in SeqToSet(activeQueries)
    /\ SetFilter("removeQuery", Without(activeQueries, queryToRemove), currentSource)

ClearFilters ==
    /\ Len(activeQueries) > 0
    /\ SetFilter("clearFilters", << >>, currentSource)

SelectSource(source) ==
    SetFilter("selectSource", activeQueries, source)

-----------------------------------------------------------------------------
(* Home.loadPapers: the part after the await *)

FetchSucceedPrepends(n, cap) ==
    /\ inflight # << >>
    /\ LET req       == Head(inflight)
           newPapers == FetchResult(req, n)
           list      == IF req.reset THEN newPapers ELSE newPapers \o papers
           cursor    == IF req.reset THEN 1 ELSE page + 1
       IN  /\ Len(list) <= cap
           /\ cursor <= MaxPage
           /\ papers' = list
           /\ page' = cursor
           /\ currentIndex' = IF req.reset THEN 0 ELSE currentIndex
    /\ cursorFilter' = FilterOf(Head(inflight).queries, Head(inflight).source)
    /\ isLoading' = FALSE
    /\ inflight' = Tail(inflight)
    /\ ev' = NoEv("fetchSucceed")
    /\ UNCHANGED << tapVars, isScrolling, swipeDirection, cooldownTimers,
                    activeQueries, currentSource, filterChanges,
                    feedSwipe, mounted, cardVars, touch >>

\* cap: the longest Item List the behaviours are to build
FetchSucceedWithin(n, cap) ==
    /\ inflight # << >>
    /\ LET req       == Head(inflight)
           newPapers == FetchResult(req, n)
           list      == IF req.reset THEN newPapers ELSE papers \o newPapers
           cursor    == IF req.reset THEN 1 ELSE page + 1
       IN  /\ Len(list) <= cap
           /\ cursor <= MaxPage
           /\ papers' = list
           /\ page' = cursor
           /\ currentIndex' = IF req.reset THEN 0 ELSE currentIndex
    /\ cursorFilter' = FilterOf(Head(inflight).queries, Head(inflight).source)
    /\ isLoading' = FALSE
    /\ inflight' = Tail(inflight)
    /\ ev' = NoEv("fetchSucceed")
    /\ UNCHANGED << tapVars, isScrolling, swipeDirection, cooldownTimers,
                    activeQueries, currentSource, filterChanges,
                    feedSwipe, mounted, cardVars, touch >>

FetchSucceed(n) == FetchSucceedWithin(n, MaxPapers)

FetchFailKeepsBusy ==
    /\ inflight # << >>
    /\ inflight' = Tail(inflight)
    /\ ev' = [ NoEv("fetchFail") EXCEPT !.page = Head(inflight).page ]
    /\ UNCHANGED << tapVars, isLoading, currentIndex, isScrolling, swipeDirection,
                    cooldownTimers, feedData, feedFilter, feedSwipe, mounted,
                    cardVars, touch >>

\* fetchPapers rejects: the finally clause runs, nothing else
FetchFail ==
    /\ inflight # << >>
    /\ isLoading' = FALSE
    /\ inflight' = Tail(inflight)
    /\ ev' = [ NoEv("fetchFail") EXCEPT !.page = Head(inflight).page ]
    /\ UNCHANGED << tapVars, currentIndex, isScrolling, swipeDirection, cooldownTimers,
                    feedData, feedFilter, feedSwipe, mounted, cardVars, touch >>

-----------------------------------------------------------------------------
(* Home.handleSelectFavorite *)

MarkFavSince(reqs) == [ i \in 1..Len(reqs) |-> [ reqs[i] EXCEPT !.favSince = TRUE ] ]

HandleSelectFavoriteAppends(id) ==
    /\ mounted
    /\ LET existingIndex == FindIndex(papers, id) - 1
           paper == [ id |-> id, fs |-> FilterOf(<< >>, "favorites") ]
       IN  IF existingIndex >= 0
           THEN /\ currentIndex' = existingIndex
                /\ papers' = papers
           ELSE /\ Len(papers) < MaxPapers
                /\ papers' = Append(papers, paper)
                /\ currentIndex' = 0
    /\ inflight' = MarkFavSince(inflight)
    /\ ev' = [ NoEv("selectFavorite") EXCEPT !.id = id ]
    /\ UNCHANGED << tapVars, page, isLoading, isScrolling, swipeDirection, cooldownTimers,
                    feedFilter, feedSwipe, mounted, cardVars, touch >>

HandleSelectFavorite(id) ==
    /\ mounted
    /\ LET existingIndex == FindIndex(papers, id) - 1
           paper == [ id |-> id, fs |-> FilterOf(<< >>, "favorites") ]
       IN  IF existingIndex >= 0
           THEN /\ currentIndex' = existingIndex
                /\ papers' = papers
           ELSE /\ Len(papers) < MaxPapers
                /\ papers' = << paper >> \o papers
                /\ currentIndex' = 0
    /\ inflight' = MarkFavSince(inflight)
    /\ ev' = [ NoEv("selectFavorite") EXCEPT !.id = id ]
    /\ UNCHANGED << tapVars, page, isLoading, isScrolling, swipeDirection, cooldownTimers,
                    feedFilter, feedSwipe, mounted, cardVars, touch >>

-----------------------------------------------------------------------------
(* Wheel events.  PaperCard.handleWheel runs first when the pointer is     *)
(* over the scroll region; Home.handleScroll is the window listener.       *)

CardWheelStopsAtTop(dy) ==
    ~ (dy > 0 /\ IsAtBottom)

\* PaperCard.handleWheel: TRUE when it calls e.stopPropagation()
CardWheelStops(dy) ==
    ~ ((dy < 0 /\ IsAtTop) \/ (dy > 0 /\ IsAtBottom))

WheelIntentZeroAdvances(dy) ==
    IF isLoading \/ isScrolling THEN "none"
    ELSE IF dy >= 0 THEN "advance"
    ELSE "retreat"

WheelIntentIgnoresLock(dy) ==
    IF isLoading THEN "none"
    ELSE IF dy > 0 THEN "advance"
    ELSE IF dy < 0 THEN "retreat"
    ELSE "none"

\* Home.handleScroll: the function it calls
WheelIntent(dy) ==
    IF isLoading \/ isScrolling THEN "none"
    ELSE IF dy > 0 THEN "advance"
    ELSE IF dy < 0 THEN "retreat"
    ELSE "none"

HandleScroll(dy) == ApplyIntent(WheelIntent(dy))

Wheel(target, dy) ==
    /\ mounted
    /\ target # "feed" => Len(papers) > 0
    /\ LET stopped == target # "feed" /\ CardWheelStops(dy)
       IN  /\ IF stopped THEN UNCHANGED feedNav ELSE HandleScroll(dy)
           \* a wheel event nobody prevented scrolls the region natively
           /\ scrollTop' = IF stopped THEN ClampScroll(scrollTop + dy) ELSE scrollTop
           /\ ev' = [ NoEv("wheel") EXCEPT
                        !.target = target, !.stopped = stopped,
                        !.prevented = ~stopped, !.deltaY = dy,
                        !.intent = IF stopped THEN "none" ELSE WheelIntent(dy) ]
    /\ UNCHANGED << tapVars, feedData, feedFilter, feedSwipe, mounted, scrollHeight,
                    touchStartY, scrollStartPosition, isInteracting, touch >>

-----------------------------------------------------------------------------
(* Touch events.  A touch sequence keeps the target of its touch-start.    *)

\* PaperCard.handleTouchStart: TRUE when it records the start and stops the event
CardTouchStartStops(target) == target = "content"

TouchStart(target, y) ==
    /\ mounted
    /\ touch = "none"
    /\ target # "feed" => Len(papers) > 0
    /\ touch' = target
    /\ IF CardTouchStartStops(target)
       THEN /\ touchStartY' = y
            /\ scrollStartPosition' = scrollTop
            /\ UNCHANGED feedSwipe
       ELSE \* Home.handleTouchStart
            /\ UNCHANGED << touchStartY, scrollStartPosition >>
            /\ IF target # "feed"
               THEN /\ isCardInteraction' = TRUE
                    /\ UNCHANGED << swipeStartY, swipeAge >>
               ELSE /\ swipeStartY' = y
                    /\ swipeAge' = 0
                    /\ isCardInteraction' = FALSE
    /\ ev' = [ NoEv("touchStart") EXCEPT
                 !.target = target, !.stopped = CardTouchStartStops(target) ]
    /\ UNCHANGED << tapVars, feedNav, feedData, feedFilter, mounted, scrollTop,
                    scrollHeight, isInteracting >>

\* PaperCard.handleTouchMove: TRUE when it consumes the move
CardTouchMoveStops(y) ==
    LET touchDelta == touchStartY - y
    IN  /\ touchStartY # 0
        /\ \/ ~IsAtTop /\ ~IsAtBottom
           \/ IsAtTop /\ touchDelta > 0
           \/ IsAtBottom /\ touchDelta < 0

TouchMove(y) ==
    /\ touch # "none"
    /\ LET stopped == touch # "feed" /\ CardTouchMoveStops(y)
       IN  /\ scrollTop' = IF stopped
                           THEN ClampScroll(scrollStartPosition + (touchStartY - y))
                           ELSE scrollTop
           \* Home.handleTouchMove only prevents the default
           /\ ev' = [ NoEv("touchMove") EXCEPT
                        !.target = touch, !.stopped = stopped,
                        !.deltaY = touchStartY - y,
                        !.prevented =
                            \/ stopped
                            \/ ~isCardInteraction /\ Abs(swipeStartY - y) > MoveJitter ]
    /\ UNCHANGED << tapVars, feedNav, feedData, feedFilter, feedSwipe, mounted,
                    scrollHeight, touchStartY, scrollStartPosition,
                    isInteracting, touch >>

\* PaperCard.handleTouchEnd: TRUE when it calls e.stopPropagation()
CardTouchEndStops ==
    ~isInteracting /\ ~IsAtTop /\ ~IsAtBottom

\* velocity > MIN_SWIPE_VELOCITY, with velocity = Math.abs(deltaY / deltaTime)
\* and deltaTime = ms / 1000: x/0 is Infinity for x # 0, and 0/0 is NaN,
\* which compares false
VelocityAbove(deltaY, ms) ==
    IF ms = 0 THEN deltaY # 0
    ELSE Abs(deltaY) * MsPerSecond * MinVelocityDen > MinVelocityNum * ms

TouchEndIntentIgnoresBusy(endY, ms) ==
    IF isCardInteraction \/ isScrolling THEN "none"
    ELSE LET deltaY == swipeStartY - endY
         IN  IF Abs(deltaY) > MIN_SWIPE_DISTANCE \/ VelocityAbove(deltaY, ms)
             THEN IF deltaY > 0 THEN "advance" ELSE "retreat"
             ELSE "none"

TouchEndIntentAtThreshold(endY, ms) ==
    IF isCardInteraction \/ isLoading \/ isScrolling THEN "none"
    ELSE LET deltaY == swipeStartY - endY
         IN  IF Abs(deltaY) >= MIN_SWIPE_DISTANCE \/ VelocityAbove(deltaY, ms)
             THEN IF deltaY > 0 THEN "advance" ELSE "retreat"
             ELSE "none"

\* Home.handleTouchEnd: the function it calls
TouchEndIntent(endY, ms) ==
    IF isCardInteraction \/ isLoading \/ isScrolling THEN "none"
    ELSE LET deltaY == swipeStartY - endY
         IN  IF Abs(deltaY) > MIN_SWIPE_DISTANCE \/ VelocityAbove(deltaY, ms)
             THEN IF deltaY > 0 THEN "advance" ELSE "retreat"
             ELSE "none"

HandleTouchEnd(endY, ms) == ApplyIntent(TouchEndIntent(endY, ms))

TouchEnd(y, ms) ==
    /\ touch # "none"
    /\ touch' = "none"
    \* the time that has passed when the event is delivered
    /\ ms >= swipeAge
    /\ swipeAge' = ms
    /\ isInteracting' = FALSE
    /\ LET stopped == touch # "feed" /\ CardTouchEndStops
       IN  /\ IF stopped THEN UNCHANGED feedNav ELSE HandleTouchEnd(y, ms)
           /\ ev' = [ NoEv("touchEnd") EXCEPT
                        !.target = touch, !.stopped = stopped,
                        !.deltaY = swipeStartY - y,
                        !.intent = IF stopped THEN "none" ELSE TouchEndIntent(y, ms) ]
    /\ UNCHANGED << tapVars, feedData, feedFilter, swipeStartY, isCardInteraction,
                    mounted, scrollTop, scrollHeight, touchStartY,
                    scrollStartPosition >>

\* the card under the pointer lays out content of height h
Layout(h) ==
    /\ touch = "none"
    /\ scrollHeight' = h
    /\ scrollTop' = Max(0, Min(scrollTop, Max(0, h - ClientHeight)))
    /\ ev' = NoEv("layout")
    /\ UNCHANGED << tapVars, feedNav, feedData, feedFilter, feedSwipe, mounted,
                    touchStartY, scrollStartPosition, isInteracting, touch >>

-----------------------------------------------------------------------------
(* Clicks on the card's scroll region.  PaperCard.handleDoubleTap is the    *)
(* onClick listener and PaperCard.handleDoubleClick the onDblClick         *)
(* listener; the platform decides which clicks complete a double click and *)
(* dispatches dblclick right after such a click.  tapLog records what was  *)
(* delivered (it is read by no handler).                                   *)

\* PaperCard.toggleFavorite, called n times
ToggleFavorite(n) == IF n % 2 = 1 THEN ~favorite ELSE favorite

\* PaperCard.toggleFavoriteWithAnimation, called n times (n <= 1 in one
\* handler): the number of animations it starts, one when the item is not
\* yet a favorite
HeartAnimations(n) == IF n > 0 /\ ~favorite THEN 1 ELSE 0

\* the timer set by toggleFavoriteWithAnimation; timers have the same delay
\* and run in the order they were set, none is ever cancelled
HeartTimerFire ==
    /\ heartTimers > 0
    /\ heartTimers' = heartTimers - 1
    /\ showHeartAnimation' = FALSE
    /\ ev' = NoEv("heartTimer")
    /\ UNCHANGED << favorite, tapAge, tapLog, feedNav, feedData, feedFilter,
                    feedSwipe, mounted, cardVars, touch >>

\* PaperCard.handleDoubleTap: the number of toggleFavoriteWithAnimation calls
\* it makes when now - lastTap() is age
DoubleTapToggles(target, class, age) ==
    IF target = "link" THEN 0
    ELSE IF class = "TouchEvent" /\ age < DOUBLE_TAP_DELAY THEN 1
    ELSE 0

\* PaperCard.handleDoubleTap: TRUE when it reaches setLastTap(now)
DoubleTapSetsLastTap(target, class) ==
    target # "link" /\ class = "TouchEvent"

Click(target, class, gap, double) ==
    /\ mounted
    /\ Len(papers) > 0
    /\ tapLog.pending = "none"
    /\ Len(tapLog.hist) < MaxTaps
    \* a click completes a double click only after a single click on the
    \* same target
    /\ double => /\ tapLog.hist # << >>
                 /\ tapLog.hist[Len(tapLog.hist)].target = target
                 /\ ~tapLog.hist[Len(tapLog.hist)].double
    /\ LET age == Min(tapAge + gap, StaleAge)
           n   == DoubleTapToggles(target, class, age)
       IN  /\ favorite' = ToggleFavorite(n)
           /\ showHeartAnimation' = (showHeartAnimation \/ HeartAnimations(n) > 0)
           /\ heartTimers' = heartTimers + HeartAnimations(n)
           /\ tapAge' = IF DoubleTapSetsLastTap(target, class) THEN 0 ELSE age
           /\ tapLog' = [ hist |-> Append(tapLog.hist,
                                     [ target |-> target, gap |-> gap,
                                       double |-> double ]),
                          toggles |-> tapLog.toggles + n,
                          pending |-> IF double THEN target ELSE "none" ]
    /\ ev' = [ NoEv("click") EXCEPT
                 !.target = target, !.stopped = (target # "link"),
                 !.prevented = (target # "link") ]
    /\ UNCHANGED << feedNav, feedData, feedFilter, feedSwipe, mounted,
                    cardVars, touch >>

\* PaperCard.handleDoubleClick
DblClick(target) ==
    /\ tapLog.pending = target
    /\ favorite' = ToggleFavorite(1)
    /\ showHeartAnimation' = (showHeartAnimation \/ HeartAnimations(1) > 0)
    /\ heartTimers' = heartTimers + HeartAnimations(1)
    /\ tapLog' = [ tapLog EXCEPT !.toggles = @ + 1, !.pending = "none" ]
    /\ ev' = [ NoEv("dblclick") EXCEPT
                 !.target = target, !.stopped = TRUE, !.prevented = TRUE ]
    /\ UNCHANGED << tapAge, feedNav, feedData, feedFilter, feedSwipe, mounted,
                    cardVars, touch >>

-----------------------------------------------------------------------------
(* The feed: mount, filter changes, fetches, favorites and wheel           *)
(* navigation on the feed itself.                                          *)

Next ==
    \/ Mount
    \/ \E q \in SearchTerms : HandleSearch(q)
    \/ \E q \in RemoveTerms : RemoveQuery(q)
    \/ ClearFilters
    \/ \E s \in Sources : SelectSource(s)
    \/ \E n \in ResultSizes : FetchSucceed(n)
    \/ FetchFail
    \/ \E id \in FavoriteIds : HandleSelectFavorite(id)
    \/ \E dy \in WheelDeltas : Wheel("feed", dy)
    \/ CooldownExpire

Spec == Init /\ [][Next]_vars

(* Gestures on the feed itself: wheel events and touch sequences that     *)
(* start outside the card's scroll region or on a link inside it, with the *)
(* fetches they trigger; the Filter State stays the initial one.           *)

NextGesture ==
    \/ Mount
    \/ \E n \in ResultSizes : FetchSucceed(n)
    \/ FetchFail
    \/ \E dy \in WheelDeltas : Wheel("feed", dy)
    \/ \E t \in {"feed", "link"}, y \in StartYs : TouchStart(t, y)
    \/ \E y \in TouchYs, ms \in Ages : TouchEnd(y, ms)
    \/ CooldownExpire

SpecGesture == Init /\ [][NextGesture]_vars

(* The card's scroll region in front of the feed: wheel and touch events   *)
(* on every target, the region at every scroll position.                   *)

NextCard ==
    \/ Mount
    \/ \E n \in ResultSizes : FetchSucceed(n)
    \/ FetchFail
    \/ \E t \in WheelTargets, dy \in WheelDeltas : Wheel(t, dy)
    \/ \E t \in Targets, y \in StartYs : TouchStart(t, y)
    \/ \E y \in CardTouchYs : TouchMove(y)
    \/ \E y \in CardTouchYs, ms \in CardAges : TouchEnd(y, ms)
    \/ \E h \in ScrollHeights : Layout(h)
    \/ CooldownExpire

SpecCard == Init /\ [][NextCard]_vars

(* Clicks and double clicks on the card in front of the feed.             *)

NextTap ==
    \/ Mount
    \/ \E n \in ResultSizes : FetchSucceed(n)
    \/ FetchFail
    \/ \E t \in ClickTargets, c \in EventClasses, g \in TapGaps, d \in BOOLEAN :
          Click(t, c, g, d)
    \/ \E t \in ClickTargets : DblClick(t)
    \/ HeartTimerFire

SpecTap == Init /\ [][NextTap]_vars

(* Pagination on a longer list: wheel navigation on the feed, the list    *)
(* allowed one item more.                                                  *)

NextPaging ==
    \/ Mount
    \/ \E n \in ResultSizes : FetchSucceedWithin(n, LongList)
    \/ FetchFail
    \/ \E dy \in WheelDeltas : Wheel("feed", dy)
    \/ CooldownExpire

SpecPaging == Init /\ [][NextPaging]_vars

(* The cooldown timer among wheel navigation, fetches and source changes. *)
(* A callback handed to setTimeout is run once its delay has passed, so    *)
(* the expiry of a pending timer is weakly fair.                           *)

NextCooldown ==
    \/ Mount
    \/ \E s \in Sources : SelectSource(s)
    \/ \E n \in ResultSizes : FetchSucceed(n)
    \/ FetchFail
    \/ \E dy \in WheelDeltas : Wheel("feed", dy)
    \/ CooldownExpire

SpecCooldown == Init /\ [][NextCooldown]_vars /\ WF_vars(CooldownExpire)

-----------------------------------------------------------------------------
(* Properties *)

FilterOps == {"handleSearch", "removeQuery", "clearFilters", "selectSource"}

\* C1: in every reachable state Position is an index of the Item List when
\* the list is non-empty, and 0 when it is empty.
C1_PositionInRange ==
    IF papers = << >>
    THEN currentIndex = 0
    ELSE currentIndex >= 0 /\ currentIndex < Len(papers)

\* an advance has taken Position to the last item of a list of two or more
C1_Witness ==
    /\ ev.op = "wheel" /\ ev.intent = "advance"
    /\ Len(papers) >= 2
    /\ currentIndex = Len(papers) - 1
    /\ isScrolling

\* C2: a wheel event or touch-end that arrives while the Navigation Lock is
\* active changes neither Position nor anything else of the navigation state
\* (it is dropped), and the release of the lock changes no Position either
\* (nothing was queued for it).
C2_LockedIntentsDropped ==
    [][ /\ (isScrolling /\ ev'.op \in {"wheel", "touchEnd"})
            => UNCHANGED << feedNav, feedData >>
        /\ ev'.op = "cooldown" => UNCHANGED << currentIndex, feedData >> ]_vars

\* a downward wheel event arrived while the lock was active, below the tail
C2_Witness ==
    /\ ev.op = "wheel" /\ ev.deltaY > 0 /\ ev.intent = "none"
    /\ isScrolling /\ ~isLoading
    /\ currentIndex < Len(papers) - 1

\* C3 as stated: every downward wheel event that reaches the feed after the
\* cooldown has expired increases Position by one below the tail, and leaves
\* it unchanged at the tail.
C3_Original ==
    [][ (ev'.op = "wheel" /\ ev'.deltaY > 0 /\ ~ev'.stopped
            /\ ~isScrolling /\ cooldownTimers = 0)
        => currentIndex' = IF currentIndex < Len(papers) - 1
                           THEN currentIndex + 1 ELSE currentIndex ]_vars

\* C3 as amended: the same, for the events that arrive while no fetch is in
\* flight; one that arrives during a fetch leaves Position unchanged.
C3_AdvanceStepsByOne ==
    [][ (ev'.op = "wheel" /\ ev'.deltaY > 0 /\ ~ev'.stopped
            /\ ~isScrolling /\ cooldownTimers = 0)
        => currentIndex' = IF ~isLoading /\ currentIndex < Len(papers) - 1
                           THEN currentIndex + 1 ELSE currentIndex ]_vars

\* an advance has moved Position to the tail of a list of three
C3_Witness ==
    /\ ev.op = "wheel" /\ ev.intent = "advance"
    /\ swipeDirection = "up"
    /\ Len(papers) = 3 /\ currentIndex = 2

\* C4: at most one fetch is in flight, the busy flag says whether one is; an
\* advance that leaves Position at length-2 or beyond while no fetch is
\* outstanding starts exactly one; and no step taken while a fetch is
\* outstanding (advance, filter change, mount) starts another.
C4_OneFetchInFlight ==
    /\ [](Len(inflight) <= 1 /\ (isLoading <=> inflight # << >>))
    /\ [][ /\ (ev'.intent = "advance" /\ ~isLoading
                 /\ currentIndex' >= Len(papers) - 2)
              => (inflight = << >> /\ Len(inflight') = 1)
           /\ isLoading => Len(inflight') <= Len(inflight) ]_vars

\* a Filter State change arrived while the mount's fetch was outstanding and
\* started no second one
C4_Witness ==
    /\ ev.op \in FilterOps /\ ev.changed
    /\ isLoading
    /\ Len(inflight) = 1 /\ ~inflight[1].reset

\* C5 as stated: when the fetch that resolves right after a Filter State
\* change leaves nothing outstanding, Position is 0 and every item of the
\* Item List was fetched for the new Filter State.
C5_Original ==
    [][ (ev.op \in FilterOps /\ ev.changed
            /\ ev'.op = "fetchSucceed" /\ inflight' = << >>)
        => /\ currentIndex' = 0
           /\ \A i \in 1..Len(papers') :
                 papers'[i].fs = FilterOf(activeQueries', currentSource') ]_vars

\* C6 as stated: a fetch that succeeds changes the Item List or the Cursor
\* only if the Filter State is the one the fetch was started with.
C6_Original ==
    [][ (ev'.op = "fetchSucceed" /\ inflight # << >>
            /\ (papers' # papers \/ page' # page))
        => FilterOf(inflight[1].queries, inflight[1].source)
              = FilterOf(activeQueries, currentSource) ]_vars

\* C7 as stated: after a fetch fails the busy flag is clear and Item List,
\* Cursor and Position are what they were when the fetch was started.
C7_Original ==
    [][ (ev'.op = "fetchFail" /\ inflight # << >>)
        => /\ ~isLoading'
           /\ papers' = inflight[1].atPapers
           /\ page' = inflight[1].atPage
           /\ currentIndex' = inflight[1].atIndex ]_vars

\* C7 as amended: a failing fetch clears the busy flag and itself changes
\* neither Item List, Cursor nor Position; the Cursor is the one of the
\* fetch's start, and so are Item List and Position unless a favorite was
\* selected while the fetch was outstanding.
C7_FailureCommitsNothing ==
    [][ (ev'.op = "fetchFail" /\ inflight # << >>)
        => /\ ~isLoading' /\ inflight' = << >>
           /\ UNCHANGED << papers, page, currentIndex >>
           /\ page = inflight[1].atPage
           /\ ~inflight[1].favSince
                 => /\ papers = inflight[1].atPapers
                    /\ currentIndex = inflight[1].atIndex ]_vars

\* a fetch has failed with items loaded and Position off the head
C7_Witness ==
    /\ ev.op = "fetchFail"
    /\ ~isLoading /\ inflight = << >>
    /\ Len(papers) >= 2 /\ currentIndex >= 1 /\ page >= 1

\* C8 as stated: no event of a touch sequence that started inside the
\* scroll region changes Position, acquires the lock or starts a fetch.
C8_Original ==
    [][ (ev'.op \in {"touchStart", "touchMove", "touchEnd"}
            /\ ev'.target \in {"content", "link"})
        => UNCHANGED << currentIndex, isScrolling, inflight >> ]_vars

\* what C9 says the intent of a touch-end is, velocity being
\* |deltaY| / (ms / 1000) and 0.3 being 3/10
C9_ClaimedIntent(deltaY, ms) ==
    LET far  == Abs(deltaY) > 30
        fast == 10 * 1000 * Abs(deltaY) > 3 * ms
    IN  IF deltaY > 0 /\ (far \/ fast) THEN "advance"
        ELSE IF deltaY < 0 /\ (far \/ fast) THEN "retreat"
        ELSE "none"

\* C9: a touch-end of a sequence started outside the scroll region, after a
\* positive elapsed time, with no lock and no fetch, is applied as the
\* intent the claim gives: an advance moves Position up by one below the
\* tail, a retreat down by one above the head, none changes nothing.
C9_TouchEndClassification ==
    [][ (ev'.op = "touchEnd" /\ ev'.target = "feed" /\ swipeAge' > 0
            /\ ~isScrolling /\ ~isLoading)
        => LET intent == C9_ClaimedIntent(ev'.deltaY, swipeAge')
           IN  /\ ev'.intent = intent
               /\ intent = "advance" =>
                     currentIndex' = IF currentIndex < Len(papers) - 1
                                     THEN currentIndex + 1 ELSE currentIndex
               /\ intent = "retreat" =>
                     currentIndex' = IF currentIndex > 0
                                     THEN currentIndex - 1 ELSE currentIndex
               /\ intent = "none" => UNCHANGED feedNav ]_vars

\* a 10-unit swipe lasting 20 ms has advanced Position: velocity alone
C9_Witness ==
    /\ ev.op = "touchEnd" /\ ev.target = "feed"
    /\ ev.deltaY = 10 /\ swipeAge = 20
    /\ ev.intent = "advance"
    /\ isScrolling /\ currentIndex >= 1

\* C10 as stated: a touch-end with deltaY = 10 after 1000 ms, with no lock
\* and no fetch, changes no Position, acquires no lock and starts no fetch.
C10_Original ==
    [][ (ev'.op = "touchEnd" /\ ev'.target = "feed"
            /\ ev'.deltaY = 10 /\ swipeAge' = 1000
            /\ ~isScrolling /\ ~isLoading)
        => UNCHANGED << currentIndex, isScrolling, inflight >> ]_vars

\* C11 as stated: a touch-end with zero elapsed time, with no lock and no
\* fetch, is decided by distance alone: advance or retreat (by the sign of
\* deltaY) iff |deltaY| > 30, otherwise none and nothing of the navigation
\* state changes.
C11_Original ==
    [][ (ev'.op = "touchEnd" /\ ev'.target = "feed" /\ swipeAge' = 0
            /\ ~isScrolling /\ ~isLoading)
        => /\ ev'.intent = IF Abs(ev'.deltaY) <= 30 THEN "none"
                           ELSE IF ev'.deltaY > 0 THEN "advance" ELSE "retreat"
           /\ Abs(ev'.deltaY) <= 30 => UNCHANGED feedNav ]_vars

\* C12: an upward wheel event (deltaY < 0) inside the scroll region is not
\* stopped when the region is at its top, so the feed's handler runs on it,
\* and with no lock and no fetch it moves Position down by one when
\* Position > 0 and takes the lock (at Position 0 it moves nothing); when the
\* region is not at its top the event is stopped and changes nothing of the
\* feed.
C12_UpwardWheelAtTopBubbles ==
    [][ (ev'.op = "wheel" /\ ev'.target = "content" /\ ev'.deltaY < 0)
        => IF scrollTop = 0
           THEN /\ ~ev'.stopped /\ ev'.prevented
                /\ (~isScrolling /\ ~isLoading /\ currentIndex > 0)
                      => (currentIndex' = currentIndex - 1 /\ isScrolling')
                /\ currentIndex = 0 => currentIndex' = 0
           ELSE /\ ev'.stopped
                /\ UNCHANGED << feedNav, feedData >> ]_vars

\* an upward wheel event on the card's content, the region at its top, has
\* taken Position back
C12_Witness ==
    /\ ev.op = "wheel" /\ ev.target = "content" /\ ev.deltaY < 0
    /\ ~ev.stopped /\ ev.intent = "retreat"
    /\ scrollTop = 0
    /\ swipeDirection = "down" /\ isScrolling
    /\ currentIndex < Len(papers) - 1

\* the number of qualifying pairs in a sequence of clicks, as C13 counts
\* them: a tap on non-link content less than 300 ms after the previous such
\* tap completes a pair unless that tap already completed one
RECURSIVE C13_QualifyingPairs(_, _, _)
C13_QualifyingPairs(h, first, since) ==
    IF h = << >> THEN 0
    ELSE LET x == Head(h)
             s == since + x.gap
         IN  IF x.target # "content" THEN C13_QualifyingPairs(Tail(h), first, s)
             ELSE IF first /\ s < 300 THEN 1 + C13_QualifyingPairs(Tail(h), FALSE, 0)
             ELSE C13_QualifyingPairs(Tail(h), TRUE, 0)

\* C13 as stated: after any sequence of taps on non-link content (every
\* event of the last tap delivered), the favorite state has been toggled
\* once for each qualifying pair of taps and not otherwise.
C13_Original ==
    (/\ tapLog.pending = "none"
     /\ \A i \in 1..Len(tapLog.hist) : tapLog.hist[i].target = "content")
        => tapLog.toggles = C13_QualifyingPairs(tapLog.hist, FALSE, 0)

\* C14 as stated: no click and no double click whose target is a link
\* changes the favorite state.
C14_Original ==
    [][ (ev'.op \in {"click", "dblclick"} /\ ev'.target = "link")
        => favorite' = favorite ]_vars

\* C15 as stated: every reset call leaves a fetch of page 0 for the new
\* Filter State in flight, also when another fetch is outstanding; a reset
\* fetch that succeeds replaces the Item List by its result and sets
\* Position to 0; one that fails sets Position to 0 as well.
C15_Original ==
    [][ /\ ev'.op \in FilterOps
           => \E i \in 1..Len(inflight') :
                 /\ inflight'[i].reset /\ inflight'[i].page = 0
                 /\ FilterOf(inflight'[i].queries, inflight'[i].source)
                       = FilterOf(activeQueries', currentSource')
        /\ (ev'.op = "fetchSucceed" /\ inflight # << >> /\ inflight[1].reset)
           => /\ currentIndex' = 0
              /\ \A i \in 1..Len(papers') :
                    papers'[i].fs = FilterOf(inflight[1].queries, inflight[1].source)
        /\ (ev'.op = "fetchFail" /\ inflight # << >> /\ inflight[1].reset)
           => currentIndex' = 0 ]_vars

\* C16 as stated: the Cursor is 0 right after a Filter State change, goes up
\* by one on every successful fetch, and no other step changes it.
C16_Original ==
    [][ /\ (ev'.op \in FilterOps /\ ev'.changed) => page' = 0
        /\ ev'.op = "fetchSucceed" => page' = page + 1
        /\ ev'.op \notin (FilterOps \cup {"fetchSucceed"}) => page' = page ]_vars

\* C17 as stated: no step taken while the Navigation Lock is active changes
\* Position.
C17_Original ==
    [][ isScrolling => currentIndex' = currentIndex ]_vars

\* C18 as stated: the active query terms never contain a term twice, and
\* adding a term that is already among them leaves the sequence as it is.
C18_Original ==
    /\ [](Cardinality(SeqToSet(activeQueries)) = Len(activeQueries))
    /\ [][ (ev'.op = "handleSearch"
               /\ SeqToSet(activeQueries') = SeqToSet(activeQueries))
           => activeQueries' = activeQueries ]_vars

\* C19: a wheel event that reaches the feed is marked prevent-default
\* whatever the lock and the busy flag are; with no lock and no fetch it is
\* applied as an advance when deltaY > 0 (Position up by one below the tail)
\* and as a retreat when deltaY < 0 (Position down by one above the head);
\* with deltaY = 0 it is none and changes no state of feed or card.
C19_WheelClassification ==
    [][ (ev'.op = "wheel" /\ ~ev'.stopped)
        => /\ ev'.prevented
           /\ (~isScrolling /\ ~isLoading /\ ev'.deltaY > 0)
                 => /\ ev'.intent = "advance"
                    /\ currentIndex' = IF currentIndex < Len(papers) - 1
                                       THEN currentIndex + 1 ELSE currentIndex
           /\ (~isScrolling /\ ~isLoading /\ ev'.deltaY < 0)
                 => /\ ev'.intent = "retreat"
                    /\ currentIndex' = IF currentIndex > 0
                                       THEN currentIndex - 1 ELSE currentIndex
           /\ ev'.deltaY = 0
                 => /\ ev'.intent = "none"
                    /\ UNCHANGED << feedNav, feedData, feedFilter, feedSwipe,
                                    cardVars, tapVars, touch, mounted >> ]_vars

\* a wheel event with deltaY = 0 has reached the feed below the tail with
\* nothing to hold it back, and Position has not moved
C19_Witness ==
    /\ ev.op = "wheel" /\ ev.deltaY = 0 /\ ~ev.stopped /\ ev.prevented
    /\ ~isScrolling /\ ~isLoading
    /\ Len(papers) >= 2 /\ currentIndex = 0

\* C20: an advance applied with the lock inactive and no fetch in flight
\* starts one fetch, of the page the Cursor names and not a reset, exactly
\* when Position after the step is at length-2 or beyond, whether or not
\* Position moved; otherwise it starts none.  A retreat starts no fetch.
C20_PaginationTrigger ==
    [][ /\ ev'.intent = "advance"
           => IF currentIndex' >= Len(papers) - 2
              THEN /\ inflight = << >> /\ Len(inflight') = 1 /\ isLoading'
                   /\ ~inflight'[1].reset /\ inflight'[1].page = page
                   /\ FilterOf(inflight'[1].queries, inflight'[1].source)
                         = FilterOf(activeQueries, currentSource)
              ELSE inflight' = << >> /\ ~isLoading'
        /\ ev'.intent = "retreat" => UNCHANGED << inflight, isLoading >> ]_vars

\* an advance has moved Position to 1, more than two before the tail, and
\* started no fetch
C20_Witness ==
    /\ ev.op = "wheel" /\ ev.intent = "advance"
    /\ Len(papers) = LongList /\ currentIndex = 1
    /\ ~isLoading /\ inflight = << >>

\* C21: whenever the Navigation Lock is active it is eventually released;
\* the step that releases it is the cooldown timer's callback and leaves the
\* direction flag neutral; and while the lock is active no step schedules a
\* further timer (nothing extends it).
C21_LockReleasedByCooldown ==
    /\ isScrolling ~> ~isScrolling
    /\ [][ /\ (isScrolling /\ ~isScrolling')
              => (ev'.op = "cooldown" /\ swipeDirection' = "null")
           /\ isScrolling => cooldownTimers' <= cooldownTimers ]_vars

\* the cooldown has released a lock that an advance took, a source change
\* and its fetch having come in between
C21_Witness ==
    /\ ev.op = "cooldown"
    /\ ~isScrolling /\ swipeDirection = "null" /\ cooldownTimers = 0
    /\ filterChanges = 1 /\ currentSource = "medrxiv"
    /\ currentIndex = 0 /\ Len(papers) >= 1

\* C22: a non-reset fetch that succeeds leaves the items present at that
\* moment in place and in order, puts the returned items after them in the
\* order returned, leaves Position alone and raises the Cursor by one; and
\* no step but a successful fetch changes the Cursor.
C22_AppendOnSuccess ==
    [][ /\ (ev'.op = "fetchSucceed" /\ inflight # << >> /\ ~inflight[1].reset)
           => /\ Len(papers') >= Len(papers)
              /\ SubSeq(papers', 1, Len(papers)) = papers
              /\ SubSeq(papers', Len(papers) + 1, Len(papers'))
                    = FetchResult(inflight[1], Len(papers') - Len(papers))
              /\ currentIndex' = currentIndex
              /\ page' = page + 1
        /\ page' # page => ev'.op = "fetchSucceed" ]_vars

\* the second page has been appended behind two items, the first of them a
\* favorite inserted while the fetch was in flight
C22_Witness ==
    /\ ev.op = "fetchSucceed"
    /\ page = 2 /\ Len(papers) = 3
    /\ papers[1].fs = FilterOf(<< >>, "favorites")
    /\ papers[3].fs = FilterOf(activeQueries, currentSource)
    /\ papers[3].id > papers[2].id

\* C23 as stated: a touch-move inside the scroll region, on non-link
\* content, by a non-zero distance is consumed exactly when a wheel event of
\* the same scroll direction would be consumed in the same state of the
\* region.
C23_Original ==
    [][ (ev'.op = "touchMove" /\ ev'.target = "content" /\ ev'.deltaY # 0)
        => (ev'.stopped <=> CardWheelStops(ev'.deltaY)) ]_vars

\* C24 as stated: for a touch-start, touch-move or touch-end whose target is
\* a link inside the scroll region the item's handlers neither stop the
\* propagation nor prevent the default action, also when an earlier
\* non-link touch left a recorded start coordinate.
C24_Original ==
    [][ (ev'.op \in {"touchStart", "touchMove", "touchEnd"}
            /\ ev'.target = "link")
        => (~ev'.stopped /\ ~ev'.prevented) ]_vars

\* C25 as stated: a failed fetch clears the busy flag and starts nothing; a
\* fetch is started only by a reset call (mount, filter change) or by an
\* advance; and the fetch that an advance starts right after a failure
\* requests the page whose fetch failed.
C25_Original ==
    [][ /\ ev'.op = "fetchFail" => (~isLoading' /\ inflight' = << >>)
        /\ (inflight = << >> /\ inflight' # << >>)
              => \/ ev'.op \in FilterOps \cup {"mount"}
                 \/ ev'.op \in {"wheel", "touchEnd"} /\ ev'.intent = "advance"
        /\ (ev.op = "fetchFail" /\ ev'.intent = "advance" /\ inflight' # << >>)
              => inflight'[1].page = ev.page ]_vars

\* C26 as stated: every favorite toggle made by a double tap or a double
\* click sets the animation flag, and the flag is cleared only by the timer
\* of the last toggle, that is after the full duration counted from it.
C26_Original ==
    [][ /\ tapLog'.toggles > tapLog.toggles => showHeartAnimation'
        /\ (showHeartAnimation /\ ~showHeartAnimation')
              => (ev'.op = "heartTimer" /\ heartTimers' = 0) ]_vars

\* C27 as stated: the lock is acquired only by a step that changes
\* Position; an advance or retreat that changes no Position leaves the lock
\* inactive, the direction neutral and sets no timer; and the wheel event
\* of the opposite direction that arrives right after such a step is
\* applied.
C27_Original ==
    [][ /\ (~isScrolling /\ isScrolling')
              => (ev'.intent \in {"advance", "retreat"}
                    /\ currentIndex' # currentIndex)
        /\ (ev'.intent \in {"advance", "retreat"} /\ currentIndex' = currentIndex)
              => (~isScrolling' /\ swipeDirection' = "null"
                    /\ cooldownTimers' = cooldownTimers)
        /\ (ev.intent = "retreat" /\ ~isScrolling
              /\ ev'.op = "wheel" /\ ev'.deltaY > 0)
              => (ev'.intent = "advance"
                    /\ currentIndex' = IF currentIndex < Len(papers) - 1
                                       THEN currentIndex + 1 ELSE currentIndex)
        /\ (ev.intent = "advance" /\ ~isScrolling
              /\ ev'.op = "wheel" /\ ev'.deltaY < 0)
              => (ev'.intent = "retreat"
                    /\ currentIndex' = IF currentIndex > 0
                                       THEN currentIndex - 1 ELSE currentIndex) ]_vars

\* C27 as amended: the same for the lock, the direction and the retreat at
\* Position 0; an advance that changes no Position has started a fetch, and
\* the wheel event of the opposite direction that arrives right after it is
\* ignored.
C27_LockOnlyOnMove ==
    [][ /\ (~isScrolling /\ isScrolling')
              => (ev'.intent \in {"advance", "retreat"}
                    /\ currentIndex' # currentIndex)
        /\ (ev'.intent \in {"advance", "retreat"} /\ currentIndex' = currentIndex)
              => (~isScrolling' /\ swipeDirection' = "null"
                    /\ cooldownTimers' = cooldownTimers)
        /\ (ev.intent = "retreat" /\ ~isScrolling
              /\ ev'.op = "wheel" /\ ev'.deltaY > 0)
              => (ev'.intent = "advance"
                    /\ currentIndex' = IF currentIndex < Len(papers) - 1
                                       THEN currentIndex + 1 ELSE currentIndex)
        /\ (ev.intent = "advance" /\ ~isScrolling
              /\ ev'.op = "wheel" /\ ev'.deltaY < 0)
              => (isLoading /\ ev'.intent = "none" /\ UNCHANGED feedNav) ]_vars

\* a retreat at Position 0 of a list of two left the lock inactive and the
\* direction neutral
C27_Witness ==
    /\ ev.op = "wheel" /\ ev.intent = "retreat"
    /\ currentIndex = 0 /\ Len(papers) >= 2
    /\ ~isScrolling /\ swipeDirection = "null" /\ cooldownTimers = 0

\* C28: a wheel event or touch-end that reaches the feed while a fetch is
\* in flight is classified as no intent and changes neither Position, the
\* lock, the direction, the timers nor the fetch, the Item List or the
\* Cursor; and the completion of a fetch changes neither Position nor the
\* lock, the direction or the timers (nothing was kept for it).
C28_BusyIntentsDropped ==
    [][ /\ (isLoading /\ ev'.op \in {"wheel", "touchEnd"})
              => (ev'.intent = "none" /\ UNCHANGED << feedNav, feedData >>)
        /\ ev'.op \in {"fetchSucceed", "fetchFail"}
              => UNCHANGED << currentIndex, isScrolling, swipeDirection,
                              cooldownTimers >> ]_vars

\* a touch sequence started on the feed ended 40 units higher while a fetch
\* was in flight, no lock active, below the tail: it moved nothing
C28_Witness ==
    /\ ev.op = "touchEnd" /\ ev.target = "feed" /\ ev.deltaY = 40
    /\ ev.intent = "none"
    /\ isLoading /\ ~isScrolling /\ ~isCardInteraction
    /\ currentIndex < Len(papers) - 1

\* C29: in every reachable state at most one cooldown timer is pending, the
\* lock is active exactly when one is, and the direction is non-neutral
\* exactly when the lock is active; the step that acquires the lock moves
\* Position by exactly one, and until the timer releases the lock no wheel
\* event or touch-end moves Position again.
C29_LockTimerDirection ==
    /\ [](/\ cooldownTimers <= 1
          /\ isScrolling <=> cooldownTimers = 1
          /\ swipeDirection # "null" <=> isScrolling)
    /\ [][ /\ (~isScrolling /\ isScrolling')
                 => Abs(currentIndex' - currentIndex) = 1
           /\ (isScrolling /\ ev'.op \in {"wheel", "touchEnd"})
                 => currentIndex' = currentIndex
           /\ (isScrolling /\ ~isScrolling') => ev'.op = "cooldown" ]_vars

\* a retreat from Position 1 holds the lock with its one timer pending
C29_Witness ==
    /\ ev.intent = "retreat" /\ currentIndex = 0
    /\ isScrolling /\ cooldownTimers = 1 /\ swipeDirection = "down"

\* C30 as stated: a fetch that is started requests page 0, or the page after
\* the one whose successful fetch, made under the Filter State the new fetch
\* is made under, last set the Cursor.
C30_Original ==
    [][ (Len(inflight') > Len(inflight) /\ inflight'[Len(inflight')].page > 0)
        => LET req == inflight'[Len(inflight')]
           IN  /\ cursorFilter = FilterOf(req.queries, req.source)
               /\ req.page = page ]_vars

\* C31: selecting the favorite with id P leaves the item with id P at
\* Position.  When an item with id P is in the Item List the list is
\* unchanged and Position becomes the index of the first such item;
\* otherwise the list becomes the favorite followed by the old list and
\* Position becomes 0.  Cursor, busy flag and Filter State are unchanged.
C31_SelectFavorite ==
    [][ ev'.op = "selectFavorite"
        => /\ currentIndex' + 1 \in 1..Len(papers')
           /\ papers'[currentIndex' + 1].id = ev'.id
           /\ IF \E i \in 1..Len(papers) : papers[i].id = ev'.id
              THEN /\ papers' = papers
                   /\ \A j \in 1..currentIndex' : papers[j].id # ev'.id
              ELSE /\ Len(papers') = Len(papers) + 1
                   /\ Tail(papers') = papers
                   /\ currentIndex' = 0
           /\ UNCHANGED << page, isLoading, activeQueries, currentSource >> ]_vars

\* the favorite with id 1 was selected while the list held another favorite
\* in front of the fetched item with that id: Position is 1
C31_Witness ==
    /\ ev.op = "selectFavorite" /\ ev.id = 1
    /\ Len(papers) = 3 /\ papers[1].id = 9
    /\ currentIndex = 1

=============================================================================
